---- MODULE Spec2Model ----
(***************************************************************************)
(* Model of tgregory/viirs_watcher.                                        *)
(*                                                                         *)
(* Strings are sequences of chunks (short TLA+ strings standing for runs   *)
(* of characters); the chunks "_" and "/" are the separator characters,    *)
(* so strings.Split, strings.Join, strings.HasPrefix, filepath.Base and    *)
(* filepath.Join are computed, not assumed.                                *)
(*                                                                         *)
(* prog selects the program that runs: "watcher" is viirs-watcher.go       *)
(* (whose main switches on cfg.Watcher.Type between the inotify and the    *)
(* timed mode), "watcher2" is viirs-watcher2.go, "lwapi" is a client that  *)
(* calls the public methods of LayoutWatcher, and "classify" is a caller   *)
(* of the functions that read a file name: NewState and getId.             *)
(***************************************************************************)
EXTENDS Integers, Sequences, FiniteSets, TLC

VARIABLES
  prog,        \* which program runs
  cfg,         \* Config after Constrain()
  workPc,      \* position of the work goroutine
  awaiting,    \* work: map[string]*State
  cur,         \* work: the State s handed to Process
  curOn,       \* work: notif.OnProcess of the notification being handled
  calls,       \* exec.Command invocations of the current Process call
  procResult,  \* what the last Process call reported
  evSend,      \* inotify event loop: the Notification it is sending, or None
  eventsLeft,  \* inotify events the kernel still delivers
  dispatches,  \* history: granule id -> number of Process calls
  recvd,       \* history: file -> number of times work received it
  lastNotif,   \* history: the last Notification work received
  panicked,    \* a goroutine panicked: the process is dead
  lastStat,    \* history: the last stability check, its two samples and its verdict
  unstableLeft,\* size changes the file system still shows to a stability check
  w2pc,        \* viirs-watcher2.go: position of the watchSub goroutine
  w2dir,       \* watchSub: dir
  w2content,   \* the entries of dir, in the order of ioutil.ReadDir
  w2finfos,    \* watchSub: finfos of the current pass
  w2i,         \* watchSub: index of the range loop over finfos
  w2found,     \* watchSub: found
  w2marked,    \* watchSub: marked
  w2m10file,   \* watchSub: m10file, then the argument of Process
  w2id,        \* Process: id
  lwDone,      \* LayoutWatcher -> its done map: path -> is the channel closed
  lwWg,        \* LayoutWatcher -> the counter of its WaitGroup
  poll,        \* <<LayoutWatcher, path>> -> the polling goroutine AddWatch started
  nLw,         \* LayoutWatchers created so far (0 is the one of main or of the client)
  wlPc,        \* position of workLayout
  wlLw,        \* workLayout: lw
  fileG,       \* the goroutines workLayout started for files (lines 212-228)
  checksLeft,  \* files the nested watches still emit
  mainPc,      \* position of main (or of the client of LayoutWatcher)
  addsLeft,    \* AddWatch calls the client still makes
  lastOp,      \* history: the last call of the client and what it found
  cls,         \* the last file name given to NewState and getId, and the results
  now,         \* the clock that time.Now() and the file system read
  fs,          \* path -> entry -> ModTime of the entry, or NoEntry
  owed         \* history: <<watch, entry>> touched since AddWatch and not emitted since

accVars == <<workPc, awaiting, cur, curOn, calls, procResult>>
inoVars == <<evSend, eventsLeft>>
histVars == <<dispatches, recvd, lastNotif>>
w2Vars == <<w2pc, w2dir, w2content, w2finfos, w2i, w2found, w2marked, w2m10file, w2id>>
statVars == <<lastStat, unstableLeft>>
lwVars == <<lwDone, lwWg, poll, nLw>>
wlVars == <<wlPc, wlLw, fileG, checksLeft>>
mainVars == <<mainPc, addsLeft, lastOp>>
timeVars == <<now, fs, owed>>
vars == <<prog, cfg, accVars, inoVars, histVars, panicked, statVars, w2Vars,
          lwVars, wlVars, mainVars, cls, timeVars>>

\* the zero Notification: nothing is being sent
None == [File |-> <<>>, OnProcess |-> [close |-> FALSE, lw |-> 0], samples |-> <<>>]

----------------------------------------------------------------------------
(* Bounds *)

MaxEvents == 3
MaxUnstable == 1
MaxFileChecks == 2
MaxAdds == 2
MaxTime == 1

----------------------------------------------------------------------------
(* Strings *)

Empty == <<>>
Us == "_"
Slash == "/"

RECURSIVE SplitFrom(_, _, _)
SplitFrom(s, sep, acc) ==
  IF s = <<>> THEN <<acc>>
  ELSE IF Head(s) = sep THEN <<acc>> \o SplitFrom(Tail(s), sep, <<>>)
  ELSE SplitFrom(Tail(s), sep, Append(acc, Head(s)))

\* strings.Split(s, sep) for a one-character separator
Split(s, sep) == SplitFrom(s, sep, <<>>)

RECURSIVE Join(_, _)
\* strings.Join(parts, sep)
Join(parts, sep) ==
  IF parts = <<>> THEN <<>>
  ELSE IF Len(parts) = 1 THEN parts[1]
  ELSE parts[1] \o <<sep>> \o Join(Tail(parts), sep)

\* strings.HasPrefix(s, p)
HasPrefix(s, p) == Len(p) <= Len(s) /\ SubSeq(s, 1, Len(p)) = p

\* filepath.Base(fp): the last element of the path
Base(fp) ==
  LET parts == Split(fp, Slash)
      nonEmpty == SelectSeq(parts, LAMBDA x : x # <<>>)
  IN IF fp = <<>> THEN <<".">>
     ELSE IF nonEmpty = <<>> THEN <<Slash>>
     ELSE nonEmpty[Len(nonEmpty)]

\* filepath.Join(a, b): empty elements are ignored, the result is cleaned
JoinPath(a, b) ==
  IF a = <<>> THEN b
  ELSE IF b = <<>> THEN a
  ELSE IF a = <<".">> THEN b
  ELSE a \o <<Slash>> \o b

SeqToSet(s) == {s[i] : i \in DOMAIN s}

----------------------------------------------------------------------------
(* Program constants of viirs-watcher.go *)

version == <<"v2.1">>
defaultPath == <<".">>
defaultDetect == <<"viirs_detect">>
defaultFit == <<"viirs_fit">>
m10 == <<"SV", "M10">>
Inotify == <<"inotify">>
Timed == <<"timed">>

\* the errors of viirs-watcher.go
NoError == "nil"
UnexpectedName == "UnexpectedName"
IdMissmatch == "IdMissmatch"
DetectFailed == "DetectFailed"
FitFailed == "FitFailed"
NightCheckFailed == "NightCheckFailed"
NoNightData == "NoNightData"

----------------------------------------------------------------------------
(* Inputs: file names and configurations *)

GMTCO == <<"GM", "TCO">>
SVDNB == <<"SV", "DNB">>

IdA == <<<<"npp">>, <<"d1">>, <<"t1">>, <<"e1">>>>
IdB == <<<<"npp">>, <<"d1">>, <<"t2">>, <<"e2">>>>

\* <type>_<id1>_<id2>_<id3>_<id4>_<tail>
FileName(type, id, tail) == Join(<<type>> \o id \o <<tail>>, Us)

InDir == <<"in">>

InotifyNames ==
  { FileName(m10, IdA, <<"b1.h5">>),
    FileName(m10, IdA, <<"b2.h5">>),
    FileName(GMTCO, IdA, <<"b1.h5">>),
    FileName(SVDNB, IdA, <<"b1.h5">>),
    FileName(m10, IdB, <<"b1.h5">>),
    Join(<<m10, <<"npp">>, <<"x.h5">>>>, Us) }

IN_CLOSE_WRITE == "IN_CLOSE_WRITE"
IN_IGNORED == "IN_IGNORED"

\* the events the kernel delivers on the inotify watch
InotifyEvents(c) ==
  { [Name |-> JoinPath(c.WatchDir, n), Mask |-> {IN_CLOSE_WRITE}] : n \in InotifyNames }
  \cup { [Name |-> c.WatchDir, Mask |-> {IN_CLOSE_WRITE}],
         [Name |-> c.WatchDir, Mask |-> {IN_IGNORED}] }

\* the configuration files (an absent field is the empty string)
RawConfigs ==
  { [WatcherType |-> Empty, Period |-> Empty, WatchDir |-> Empty, SubWatchDir |-> Empty,
     OutputDir |-> Empty, DetectBinary |-> Empty, FitBinary |-> Empty,
     H5DumpBinary |-> Empty, RequireFiles |-> <<>>],
    [WatcherType |-> Inotify, Period |-> Empty, WatchDir |-> InDir, SubWatchDir |-> Empty,
     OutputDir |-> <<"out">>, DetectBinary |-> Empty, FitBinary |-> Empty,
     H5DumpBinary |-> <<"h5dump">>, RequireFiles |-> <<GMTCO, SVDNB>>],
    [WatcherType |-> Inotify, Period |-> Empty, WatchDir |-> InDir, SubWatchDir |-> Empty,
     OutputDir |-> Empty, DetectBinary |-> <<"detect">>, FitBinary |-> Empty,
     H5DumpBinary |-> <<"h5dump">>, RequireFiles |-> <<m10, GMTCO>>],
    [WatcherType |-> Timed, Period |-> <<"30s">>, WatchDir |-> <<"runs">>,
     SubWatchDir |-> <<"result">>, OutputDir |-> Empty, DetectBinary |-> Empty,
     FitBinary |-> Empty, H5DumpBinary |-> Empty, RequireFiles |-> <<>>] }

----------------------------------------------------------------------------
(* viirs-watcher.go: Config and State *)

\* Config.Constrain: returns before setting any default when SVM10 is listed
Constrain(c) ==
  IF \E i \in DOMAIN c.RequireFiles : c.RequireFiles[i] = m10 THEN c
  ELSE [c EXCEPT
          !.RequireFiles = Append(c.RequireFiles, m10),
          !.OutputDir = IF c.OutputDir = Empty THEN defaultPath ELSE c.OutputDir,
          !.WatcherType = IF c.WatcherType = Empty THEN Inotify ELSE c.WatcherType,
          !.WatchDir = IF c.WatchDir = Empty THEN defaultPath ELSE c.WatchDir,
          !.DetectBinary = IF c.DetectBinary = Empty THEN defaultDetect ELSE c.DetectBinary,
          !.FitBinary = IF c.FitBinary = Empty THEN defaultFit ELSE c.FitBinary]

\* Config.Done
Done(c, s) ==
  \A i \in DOMAIN c.RequireFiles : c.RequireFiles[i] \in SeqToSet(s.Files)

\* NewState with the id read one token further to the right
NewState_IdShifted(fp) ==
  LET name == Base(fp)
      parts == Split(name, Us)
  IN IF Len(parts) < 6
     THEN [err |-> UnexpectedName, s |-> [Id |-> Empty, M10File |-> Empty, Files |-> <<>>]]
     ELSE [err |-> NoError,
           s |-> [Id |-> Join(SubSeq(parts, 3, 6), Us),
                  M10File |-> IF parts[2] = m10 THEN fp ELSE Empty,
                  Files |-> <<parts[2]>>]]

\* NewState: [err, s]
NewState(fp) ==
  LET name == Base(fp)
      parts == Split(name, Us)
  IN IF Len(parts) < 6
     THEN [err |-> UnexpectedName, s |-> [Id |-> Empty, M10File |-> Empty, Files |-> <<>>]]
     ELSE [err |-> NoError,
           s |-> [Id |-> Join(SubSeq(parts, 2, 5), Us),
                  M10File |-> IF parts[1] = m10 THEN fp ELSE Empty,
                  Files |-> <<parts[1]>>]]

\* Merge without line 154: the types of the stored record are dropped
Merge_DropOld(s, s2) ==
  IF s.Id # s2.Id THEN s
  ELSE [s EXCEPT !.M10File = IF s.M10File = Empty THEN s2.M10File ELSE s.M10File]

\* State.Merge: s.Merge(s2), the receiver after the call
Merge(s, s2) ==
  IF s.Id # s2.Id THEN s
  ELSE [s EXCEPT !.Files = s.Files \o s2.Files,
                 !.M10File = IF s.M10File = Empty THEN s2.M10File ELSE s.M10File]

----------------------------------------------------------------------------
(* External processes: exec.Command(...).Output() *)

\* exec.Command("") never starts; any other binary may fail or succeed
ExecErrs(bin) == IF bin = Empty THEN {TRUE} ELSE BOOLEAN

Marker == "Descending_Indicator"
AscDesc == <<"Ascending/", Marker>>

\* outputs of `h5dump -x -A`: the attributes it prints, and whether the
\* text is well-formed XML
H5Outputs ==
  { [wellFormed |-> TRUE, attrs |-> <<>>],
    [wellFormed |-> TRUE, attrs |-> <<[Name |-> AscDesc, Data |-> <<" ", "0", " ">>]>>],
    [wellFormed |-> TRUE, attrs |-> <<[Name |-> AscDesc, Data |-> <<"1">>]>>],
    [wellFormed |-> TRUE, attrs |-> <<[Name |-> AscDesc, Data |-> <<"0">>],
                                      [Name |-> AscDesc, Data |-> <<"\n", "1">>]>>],
    [wellFormed |-> FALSE, attrs |-> <<[Name |-> AscDesc, Data |-> <<"0">>]>>],
    [wellFormed |-> TRUE, attrs |-> <<[Name |-> <<Marker>>, Data |-> <<"1">>]>>] }

NoOutput == [wellFormed |-> FALSE, attrs |-> <<>>]

\* results of running h5dump: [err, out]
H5Results(bin) ==
  { [err |-> TRUE, out |-> NoOutput] }
  \cup (IF bin = Empty THEN {} ELSE { [err |-> FALSE, out |-> o] : o \in H5Outputs })

\* strings.Contains(string(out), "Descending_Indicator")
ContainsMarker(out) ==
  \E i \in DOMAIN out.attrs : \E j \in DOMAIN out.attrs[i].Name : out.attrs[i].Name[j] = Marker

\* hasNight reporting "no night data" when h5dump fails
hasNight_DropOnError(r) ==
  IF r.err THEN [night |-> FALSE, err |-> NoError]
  ELSE IF ContainsMarker(r.out) THEN [night |-> TRUE, err |-> NoError]
  ELSE [night |-> FALSE, err |-> NoError]

\* Config.hasNight, given the result of running h5dump: [night, err]
hasNight(r) ==
  IF r.err THEN [night |-> TRUE, err |-> NightCheckFailed]
  ELSE IF ContainsMarker(r.out) THEN [night |-> TRUE, err |-> NoError]
  ELSE [night |-> FALSE, err |-> NoError]

\* the gate with the test on night inverted
GateSkips_Inverted(hn) == hn.err = NoError /\ hn.night

\* Config.Process, line 109: the gate returns NoNightData
GateSkips(hn) == hn.err = NoError /\ ~hn.night

\* stage 1 writing under the tag of stage 2
DetFile_WrongTag(outputDir, id) ==
  JoinPath(outputDir, Join(<<<<"VNFL">>, id, version>>, Us)) \o <<".csv">>

\* Config.Process, line 112
DetFile(outputDir, id) ==
  JoinPath(outputDir, Join(<<<<"VNFD">>, id, version>>, Us)) \o <<".csv">>

\* Config.Process, line 119
FitFile(outputDir, id) ==
  JoinPath(outputDir, Join(<<<<"VNFL">>, id, version>>, Us)) \o <<".csv">>

DetectArgs(m10file, detfile) ==
  <<m10file, <<"-output">>, detfile, <<"-cloud">>, <<"0">>>>

FitArgs(detfile, fitfile) ==
  <<detfile, <<"-output">>, fitfile, <<"-plot">>, <<"1">>, <<"-map">>, <<"1">>,
    <<"-localmax">>, <<"1">>, <<"-size">>, <<"100">>, <<"-font">>, <<"10">>>>

\* Process without the return of line 117
DetectAborts_Never(err) == FALSE

\* Config.Process, lines 115-118: stage 2 follows only a stage 1 without error
DetectAborts(err) == err

Call(tool, bin, args, err, out) ==
  [tool |-> tool, bin |-> bin, args |-> args, err |-> err, out |-> out]

----------------------------------------------------------------------------
(* viirs-watcher.go: work *)

NoState == [Id |-> Empty, M10File |-> Empty, Files |-> <<>>]
\* Notification.OnProcess: func(){} of the inotify loop, or lw.Close
NoOp == [close |-> FALSE, lw |-> 0]
CloseOf(w) == [close |-> TRUE, lw |-> w]

Put(f, k, v) == [x \in DOMAIN f \cup {k} |-> IF x = k THEN v ELSE f[x]]
\* work without the delete of line 183
Remove_Keep(f, k) == f
\* delete(f, k)
Remove(f, k) == [x \in DOMAIN f \ {k} |-> f[x]]
Count(f, k) == IF k \in DOMAIN f THEN f[k] ELSE 0

\* work with Process on a goroutine of its own: the receive is always open
CanReceive_Always == TRUE

\* work blocks in `range notifications` only at the top of its loop
CanReceive == workPc = "recv"

\* one iteration of the loop of work up to the call of Process (lines 168-183)
WorkRecv(n) ==
  /\ CanReceive
  /\ ~panicked
  /\ lastNotif' = n
  /\ recvd' = Put(recvd, n.File, Count(recvd, n.File) + 1)
  /\ LET ns == NewState(n.File)
         s == IF ns.s.Id \in DOMAIN awaiting THEN Merge(ns.s, awaiting[ns.s.Id]) ELSE ns.s
     IN IF ns.err # NoError
        THEN UNCHANGED <<accVars, dispatches>>
        ELSE IF ~Done(cfg, s)
        THEN /\ awaiting' = Put(awaiting, s.Id, s)
             /\ UNCHANGED <<workPc, cur, curOn, calls, procResult, dispatches>>
        ELSE /\ awaiting' = Remove(Put(awaiting, s.Id, s), s.Id)
             /\ cur' = s
             /\ curOn' = n.OnProcess
             /\ calls' = <<>>
             /\ procResult' = "running"
             /\ workPc' = "hasNight"
             /\ dispatches' = Put(dispatches, s.Id, Count(dispatches, s.Id) + 1)

\* Config.Process, line 109: the gate
ProcessGate ==
  /\ prog = "watcher" /\ workPc = "hasNight" /\ ~panicked
  /\ \E r \in H5Results(cfg.H5DumpBinary) :
       /\ calls' = Append(calls, Call("h5dump", cfg.H5DumpBinary,
                                      <<<<"-x">>, <<"-A">>, cur.M10File>>, r.err, r.out))
       /\ IF GateSkips(hasNight(r))
          THEN procResult' = NoNightData /\ workPc' = "onProcess"
          ELSE procResult' = procResult /\ workPc' = "detect"
  /\ UNCHANGED <<prog, cfg, cls, timeVars, awaiting, cur, curOn, inoVars, histVars, panicked, statVars, w2Vars, lwVars, wlVars, mainVars>>

\* Config.Process, lines 112-118: stage 1
ProcessDetect ==
  /\ prog = "watcher" /\ workPc = "detect" /\ ~panicked
  /\ \E err \in ExecErrs(cfg.DetectBinary) :
       /\ calls' = Append(calls, Call("detect", cfg.DetectBinary,
                                      DetectArgs(cur.M10File, DetFile(cfg.OutputDir, cur.Id)),
                                      err, NoOutput))
       /\ IF DetectAborts(err)
          THEN procResult' = DetectFailed /\ workPc' = "onProcess"
          ELSE procResult' = procResult /\ workPc' = "fit"
  /\ UNCHANGED <<prog, cfg, cls, timeVars, awaiting, cur, curOn, inoVars, histVars, panicked, statVars, w2Vars, lwVars, wlVars, mainVars>>

\* Config.Process, lines 119-126: stage 2
ProcessFit ==
  /\ prog = "watcher" /\ workPc = "fit" /\ ~panicked
  /\ \E err \in ExecErrs(cfg.FitBinary) :
       /\ calls' = Append(calls, Call("fit", cfg.FitBinary,
                                      FitArgs(DetFile(cfg.OutputDir, cur.Id),
                                              FitFile(cfg.OutputDir, cur.Id)),
                                      err, NoOutput))
       /\ procResult' = IF err THEN FitFailed ELSE NoError
       /\ workPc' = "onProcess"
  /\ UNCHANGED <<prog, cfg, cls, timeVars, awaiting, cur, curOn, inoVars, histVars, panicked, statVars, w2Vars, lwVars, wlVars, mainVars>>

\* work, line 187, for a Notification of the inotify loop: OnProcess is func(){}
WorkOnProcessNoOp ==
  /\ prog = "watcher" /\ workPc = "onProcess" /\ ~panicked
  /\ ~curOn.close
  /\ workPc' = "recv"
  /\ UNCHANGED <<prog, cfg, cls, timeVars, awaiting, cur, curOn, calls, procResult, inoVars, histVars, panicked, statVars, w2Vars, lwVars, wlVars, mainVars>>

----------------------------------------------------------------------------
(* viirs-watcher.go: main, inotify mode *)

\* the event loop takes an event from watcher.Event (lines 348-354)
InotifyEvent ==
  /\ prog = "watcher" /\ cfg.WatcherType = Inotify /\ ~panicked
  /\ evSend = None
  /\ eventsLeft > 0
  /\ \E e \in InotifyEvents(cfg) :
       /\ eventsLeft' = eventsLeft - 1
       /\ evSend' = IF IN_CLOSE_WRITE \in e.Mask /\ e.Name # cfg.WatchDir
                    THEN [File |-> e.Name, OnProcess |-> NoOp, samples |-> <<>>]
                    ELSE None
  /\ UNCHANGED <<prog, cfg, cls, timeVars, accVars, histVars, panicked, statVars, w2Vars, lwVars, wlVars, mainVars>>

\* notifications <- Notification{event.Name, func() {}} meets the receive of work
InotifySend ==
  /\ prog = "watcher" /\ cfg.WatcherType = Inotify
  /\ evSend # None
  /\ WorkRecv(evSend)
  /\ evSend' = None
  /\ UNCHANGED <<prog, cfg, cls, timeVars, eventsLeft, panicked, statVars, w2Vars, lwVars, wlVars, mainVars>>

----------------------------------------------------------------------------
(* Stability checks: os.Stat, a wait, os.Stat *)

\* results of os.Stat
Stats == { [err |-> TRUE, size |-> 0], [err |-> FALSE, size |-> 1], [err |-> FALSE, size |-> 2] }

NoStat == [who |-> "", r1 |-> [err |-> FALSE, size |-> 0], r2 |-> [err |-> FALSE, size |-> 0],
           verdict |-> ""]

\* viirs-watcher2.go fileDone: after a failed os.Stat finfo is nil and
\* finfo.Size() is a nil dereference
fileDone(r1, r2) ==
  IF r1.err THEN "panic"
  ELSE IF r2.err THEN "panic"
  ELSE IF r1.size = r2.size THEN "stable"
  ELSE "unstable"

\* the sample pairs the file system may show: the file is missing at the
\* first os.Stat (the second is then not looked at), or it has size 1 and at
\* the second os.Stat it is missing, unchanged or grown; size changes are
\* bounded
StatPairs ==
  { p \in Stats \X Stats :
      /\ p[1].err => p[2].err
      /\ ~p[1].err => p[1].size = 1
      /\ (~p[1].err /\ ~p[2].err /\ p[1].size # p[2].size) => unstableLeft > 0 }

Changed(p) == ~p[1].err /\ ~p[2].err /\ p[1].size # p[2].size

----------------------------------------------------------------------------
(* viirs-watcher2.go *)

watchDir == <<Slash, "data">>
subDir == <<"result">>
prefix == <<"NPP">>
OutputDir == <<Slash, "output">>
H5DumpBinary == <<"h5dump">>
DetectBinary == <<"viirs_detect">>
FitBinary == <<"viirs_fit">>

required ==
  << <<"GM", "TCO">>, <<"II", "CMO">>, <<"SV", "DNB">>, <<"SV", "M07">>, <<"SV", "M08">>,
     <<"SV", "M10">>, <<"SV", "M12">>, <<"SV", "M13">>, <<"SV", "M14">>, <<"SV", "M15">>,
     <<"SV", "M16">> >>

\* getId: [err, id]
getId(m10file) ==
  LET name == Base(m10file)
      parts == Split(name, Us)
  IN IF Len(parts) < 6 THEN [err |-> UnexpectedName, id |-> Empty]
     ELSE [err |-> NoError, id |-> Join(SubSeq(parts, 2, 5), Us)]

Space == {" ", "\n", "\t"}

RECURSIVE TrimLeft(_)
TrimLeft(s) == IF s # <<>> /\ Head(s) \in Space THEN TrimLeft(Tail(s)) ELSE s

RECURSIVE TrimRight(_)
TrimRight(s) ==
  IF s # <<>> /\ s[Len(s)] \in Space THEN TrimRight(SubSeq(s, 1, Len(s) - 1)) ELSE s

\* strings.TrimSpace
TrimSpace(s) == TrimRight(TrimLeft(s))

\* strings.Contains / XPath contains()
Contains(s, p) == \E i \in 1..(Len(s) - Len(p) + 1) : SubSeq(s, i, i + Len(p) - 1) = p

\* hasNight of viirs-watcher2.go, given the result of running h5dump
hasNight2(r) ==
  IF r.err THEN TRUE
  ELSE IF ~r.out.wellFormed THEN TRUE
  ELSE \E i \in DOMAIN r.out.attrs :
         /\ Contains(r.out.attrs[i].Name, AscDesc)
         /\ TrimSpace(r.out.attrs[i].Data) # <<"0">>

\* isRequired
isRequired(s) == \E i \in DOMAIN required : HasPrefix(s, required[i])

\* Process of viirs-watcher2.go, lines 93 and 100
DetFile2(id) == JoinPath(OutputDir, Join(<<<<"VNFD">>, id, version>>, Us)) \o <<".csv">>
FitFile2(id) == JoinPath(OutputDir, Join(<<<<"VNFF">>, id, version>>, Us)) \o <<".csv">>

\* Process of viirs-watcher2.go, lines 96-99
DetectAborts2(err) == err

\* the run directories under watchDir and what their result directories
\* hold, in the order of ioutil.ReadDir (sorted by name)
RunName == <<"NPP", "r1">>

AllOf(id) == [i \in DOMAIN required |-> FileName(required[i], id, <<"b1.h5">>)]

W2Listings ==
  { AllOf(IdA) \o << <<"readme.txt">> >>,
    <<AllOf(IdA)[1], AllOf(IdB)[1]>> \o SubSeq(AllOf(IdA), 2, 5) \o SubSeq(AllOf(IdA), 7, 11),
    <<AllOf(IdA)[1], AllOf(IdB)[1]>> \o SubSeq(AllOf(IdA), 2, 11) }

\* watchRoot, line 175: go watchSub(filepath.Join(dir, finfo.Name(), subDir))
\* for an entry of watchDir that is newer than since and starts with prefix
W2WatchRoot ==
  /\ prog = "watcher2" /\ ~panicked
  /\ w2pc = "idle"
  /\ \E name \in {RunName, <<"tmp">>}, l \in W2Listings :
       IF HasPrefix(name, prefix)
       THEN /\ w2pc' = "loop"
            /\ w2dir' = JoinPath(JoinPath(watchDir, name), subDir)
            /\ w2content' = l
            /\ w2found' = 0
            /\ w2marked' = {}
            /\ w2m10file' = Empty
            /\ UNCHANGED <<w2finfos, w2i, w2id>>
       ELSE UNCHANGED w2Vars
  /\ UNCHANGED <<prog, cfg, cls, timeVars, accVars, inoVars, histVars, panicked, statVars, lwVars, wlVars, mainVars>>

\* watchSub, lines 142-146: the loop condition and ioutil.ReadDir
W2ReadDir ==
  /\ prog = "watcher2" /\ ~panicked
  /\ w2pc = "loop"
  /\ w2found # Len(required)
  /\ \E err \in BOOLEAN :
       \* a failed ReadDir is logged and leaves finfos empty
       w2finfos' = IF err THEN <<>> ELSE w2content
  /\ w2i' = 1
  /\ w2pc' = "scan"
  /\ UNCHANGED <<w2dir, w2content, w2found, w2marked, w2m10file, w2id>>
  /\ UNCHANGED <<prog, cfg, cls, timeVars, accVars, inoVars, histVars, panicked, statVars, lwVars, wlVars, mainVars>>

\* watchSub, lines 147-159: one entry of finfos
W2ScanEntry ==
  /\ prog = "watcher2" /\ ~panicked
  /\ w2pc = "scan"
  /\ w2i <= Len(w2finfos)
  /\ w2i' = w2i + 1
  /\ LET name == w2finfos[w2i] IN
     IF isRequired(name) /\ name \notin w2marked
     THEN \E p \in StatPairs :
            LET v == fileDone(p[1], p[2]) IN
            /\ lastStat' = [who |-> "fileDone", r1 |-> p[1], r2 |-> p[2], verdict |-> v]
            /\ unstableLeft' = IF Changed(p) THEN unstableLeft - 1 ELSE unstableLeft
            /\ panicked' = (v = "panic")
            /\ IF v = "stable"
               THEN /\ w2found' = w2found + 1
                    /\ w2marked' = w2marked \cup {name}
                    /\ w2m10file' = IF HasPrefix(name, m10) THEN JoinPath(w2dir, name)
                                    ELSE w2m10file
               ELSE UNCHANGED <<w2found, w2marked, w2m10file>>
     ELSE UNCHANGED <<w2found, w2marked, w2m10file, statVars, panicked>>
  /\ UNCHANGED <<w2pc, w2dir, w2content, w2finfos, w2id>>
  /\ UNCHANGED <<prog, cfg, cls, timeVars, accVars, inoVars, histVars, lwVars, wlVars, mainVars>>

\* watchSub, line 160: <-time.After(period), back to the loop condition
W2Sleep ==
  /\ prog = "watcher2" /\ ~panicked
  /\ w2pc = "scan"
  /\ w2i > Len(w2finfos)
  /\ w2pc' = "loop"
  /\ UNCHANGED <<w2dir, w2content, w2finfos, w2i, w2found, w2marked, w2m10file, w2id>>
  /\ UNCHANGED <<prog, cfg, cls, timeVars, accVars, inoVars, histVars, panicked, statVars, lwVars, wlVars, mainVars>>

\* watchSub, line 162, and Process, lines 84-92: the gate and getId
W2ProcessGate ==
  /\ prog = "watcher2" /\ ~panicked
  /\ w2pc = "loop"
  /\ w2found = Len(required)
  /\ \E r \in H5Results(H5DumpBinary) :
       /\ calls' = <<Call("h5dump", H5DumpBinary, <<<<"-x">>, <<"-A">>, w2m10file>>, r.err, r.out)>>
       /\ IF ~hasNight2(r)
          THEN /\ procResult' = "log: No night data"
               /\ w2pc' = "done"
               /\ w2id' = w2id
          ELSE IF getId(w2m10file).err # NoError
          THEN /\ procResult' = "log: ERROR: Processing failed"
               /\ w2pc' = "done"
               /\ w2id' = w2id
          ELSE /\ procResult' = "running"
               /\ w2pc' = "detect"
               /\ w2id' = getId(w2m10file).id
  /\ UNCHANGED <<w2dir, w2content, w2finfos, w2i, w2found, w2marked, w2m10file>>
  /\ UNCHANGED <<prog, cfg, cls, timeVars, workPc, awaiting, cur, curOn, inoVars, histVars, panicked, statVars, lwVars, wlVars, mainVars>>

\* Process, lines 93-99: stage 1
W2ProcessDetect ==
  /\ prog = "watcher2" /\ ~panicked
  /\ w2pc = "detect"
  /\ \E err \in ExecErrs(DetectBinary) :
       /\ calls' = Append(calls, Call("detect", DetectBinary,
                                      DetectArgs(w2m10file, DetFile2(w2id)), err, NoOutput))
       /\ IF DetectAborts2(err)
          THEN procResult' = "log: ERROR: Detect failed" /\ w2pc' = "done"
          ELSE procResult' = procResult /\ w2pc' = "fit"
  /\ UNCHANGED <<w2dir, w2content, w2finfos, w2i, w2found, w2marked, w2m10file, w2id>>
  /\ UNCHANGED <<prog, cfg, cls, timeVars, workPc, awaiting, cur, curOn, inoVars, histVars, panicked, statVars, lwVars, wlVars, mainVars>>

\* Process, lines 100-108: stage 2
W2ProcessFit ==
  /\ prog = "watcher2" /\ ~panicked
  /\ w2pc = "fit"
  /\ \E err \in ExecErrs(FitBinary) :
       /\ calls' = Append(calls, Call("fit", FitBinary,
                                      FitArgs(DetFile2(w2id), FitFile2(w2id)), err, NoOutput))
       /\ procResult' = IF err THEN "log: ERROR: Fit failed" ELSE "log: INFO: Processing success"
  /\ w2pc' = "done"
  /\ UNCHANGED <<w2dir, w2content, w2finfos, w2i, w2found, w2marked, w2m10file, w2id>>
  /\ UNCHANGED <<prog, cfg, cls, timeVars, workPc, awaiting, cur, curOn, inoVars, histVars, panicked, statVars, lwVars, wlVars, mainVars>>

----------------------------------------------------------------------------
(* viirs-watcher.go: LayoutWatcher *)

\* the process runs: no goroutine panicked and main has not returned
Alive == ~panicked /\ mainPc # "exited"

RECURSIVE Pick(_, _, _)
\* the entries of listing l at the indices S, in the order of l
Pick(l, S, i) ==
  IF i > Len(l) THEN <<>>
  ELSE (IF i \in S THEN <<l[i]>> ELSE <<>>) \o Pick(l, S, i + 1)

\* LayoutWatcher.Close, lines 269-271: close of a closed channel panics
ClosePanics(w) == \E k \in DOMAIN lwDone[w] : lwDone[w][k]
CloseChannels(w) == [lwDone EXCEPT ![w] = [k \in DOMAIN lwDone[w] |-> TRUE]]

\* LayoutWatcher.Close, line 272: lw.wg.Wait() returns
WaitReturns(w) == lwWg[w] = 0

\* LayoutWatcher.AddWatch, line 276: lw.wg.Add(1) precedes the double-watch test
AddWatchWg(w, path) == lwWg[w] + 1

\* LayoutWatcher.AddWatch(path) on watcher w, up to the start of the goroutine
\* (line 283: lastCheck := time.Now()); d, g and n are the done maps, the
\* WaitGroups and the goroutines before the call
AddWatch(w, path, d, g, n) ==
  /\ lwWg' = [x \in DOMAIN g \cup {w} |-> IF x = w THEN (IF w \in DOMAIN g THEN AddWatchWg(w, path) ELSE 1) ELSE g[x]]
  /\ IF w \in DOMAIN d /\ path \in DOMAIN d[w]
     THEN lwDone' = d /\ poll' = n
     ELSE /\ lwDone' = Put(d, w, Put(IF w \in DOMAIN d THEN d[w] ELSE <<>>, path, FALSE))
          /\ poll' = Put(n, <<w, path>>, [pc |-> "readdir", todo |-> <<>>,
                                           lastCheck |-> now, currentCheck |-> now])

\* what the watched directories hold, in the order of ioutil.ReadDir
TimedRoot == <<"runs">>
TimedSub == <<"result">>
TimedRuns == << <<"NPP", "r1">>, <<"NPP", "r2">> >>
TimedFiles == << FileName(m10, IdA, <<"b1.h5">>), FileName(m10, IdB, <<"b1.h5">>) >>
ApiPaths == { <<"p">>, <<"q">> }
ApiFiles == << <<"f1">> >>

Listing(w, path) ==
  IF prog = "lwapi" THEN ApiFiles
  ELSE IF w = 0 THEN TimedRuns
  ELSE TimedFiles

\* ModTime of an entry that does not exist
NoEntry == -1

\* the client program keeps the clock and the ModTime of every entry; in the
\* other programs the clock stands still and fs is empty
Clocked == prog = "lwapi"

\* lines 295-296: the sets of entries a pass may find with ModTime().After(lastCheck).
\* With the clock it is the one set the file system holds; without it any
\* entries may have been touched since the last pass
Newer(k) ==
  IF Clocked
  THEN { { i \in DOMAIN fs[k[2]] : fs[k[2]][i] # NoEntry /\ fs[k[2]][i] > poll[k].lastCheck } }
  ELSE SUBSET DOMAIN Listing(k[1], k[2])

\* the polling goroutine, lines 288-293 and 295-301: currentCheck, ReadDir, the
\* entries whose ModTime is after lastCheck, and lastCheck = currentCheck when
\* there is nothing to send
PollReadDir(k) ==
  /\ Alive
  /\ k \in DOMAIN poll
  /\ poll[k].pc = "readdir"
  /\ \/ /\ poll' = [poll EXCEPT ![k].pc = "sendErr", ![k].currentCheck = now]
        /\ owed' = owed
     \/ \E S \in Newer(k) :
          LET l == Listing(k[1], k[2])
              todo == [i \in DOMAIN Pick(l, S, 1) |-> JoinPath(k[2], Pick(l, S, 1)[i])]
          IN /\ (k[1] # 0 /\ prog = "watcher") => Len(todo) <= checksLeft
             /\ poll' = [poll EXCEPT ![k] = [pc |-> IF todo = <<>> THEN "select" ELSE "sendEvent",
                                             todo |-> todo,
                                             lastCheck |-> IF todo = <<>> THEN now ELSE @.lastCheck,
                                             currentCheck |-> now]]
             /\ owed' = owed \ { <<k, i>> : i \in S }
  /\ UNCHANGED <<prog, cfg, cls, now, fs, accVars, inoVars, histVars, panicked, statVars, w2Vars,
                 lwDone, lwWg, nLw, wlVars, mainVars>>

\* after lw.event <- or lw.err <- was received: the error return of line 292
\* leaves lastCheck alone, the last send is followed by line 301
Sent(k) ==
  IF poll[k].pc = "sendErr"
  THEN [poll[k] EXCEPT !.pc = "select", !.todo = <<>>]
  ELSE IF Len(poll[k].todo) = 1
  THEN [poll[k] EXCEPT !.pc = "select", !.todo = <<>>, !.lastCheck = poll[k].currentCheck]
  ELSE [poll[k] EXCEPT !.todo = Tail(poll[k].todo)]

\* lw.err <- err of the root watch meets the receive of main's error loop
\* (lines 373-382)
MainRecvErr(k) ==
  /\ Alive /\ prog = "watcher"
  /\ k \in DOMAIN poll /\ k[1] = 0
  /\ poll[k].pc = "sendErr"
  /\ poll' = [poll EXCEPT ![k] = Sent(k)]
  /\ UNCHANGED <<prog, cfg, cls, timeVars, accVars, inoVars, histVars, panicked, statVars, w2Vars,
                 lwDone, lwWg, nLw, wlVars, mainVars>>

\* the polling goroutine, lines 303-306: the period elapsed
PollTimer(k) ==
  /\ Alive
  /\ k \in DOMAIN poll
  /\ poll[k].pc = "select"
  /\ poll' = [poll EXCEPT ![k].pc = "readdir"]
  /\ UNCHANGED <<prog, cfg, cls, timeVars, accVars, inoVars, histVars, panicked, statVars, w2Vars,
                 lwDone, lwWg, nLw, wlVars, mainVars>>

\* the polling goroutine, lines 307-311: done is closed, lw.wg.Done()
PollDone(k) ==
  /\ Alive
  /\ k \in DOMAIN poll
  /\ poll[k].pc = "select"
  /\ lwDone[k[1]][k[2]]
  /\ poll' = [poll EXCEPT ![k].pc = "exited"]
  /\ lwWg' = [lwWg EXCEPT ![k[1]] = @ - 1]
  /\ UNCHANGED <<prog, cfg, cls, timeVars, accVars, inoVars, histVars, panicked, statVars, w2Vars,
                 lwDone, nLw, wlVars, mainVars>>

----------------------------------------------------------------------------
(* viirs-watcher.go: main in timed mode, workLayout *)

\* main, lines 369-382: NewLayoutWatcher, AddWatch, go workLayout
TimedStart ==
  /\ prog = "watcher" /\ cfg.WatcherType = Timed
  /\ mainPc = "start"
  /\ AddWatch(0, cfg.WatchDir, lwDone, lwWg, poll)
  /\ nLw' = 1
  /\ mainPc' = "run"
  /\ wlPc' = "range"
  /\ UNCHANGED <<prog, cfg, cls, timeVars, accVars, inoVars, histVars, panicked, statVars, w2Vars,
                 wlLw, fileG, checksLeft, addsLeft, lastOp>>

\* workLayout, lines 196-204: d arrives from the root watch; a new
\* LayoutWatcher watches d/SubWatchDir
WorkLayoutRecvDir(k) ==
  /\ Alive /\ prog = "watcher"
  /\ wlPc = "range"
  /\ k \in DOMAIN poll /\ k[1] = 0
  /\ poll[k].pc = "sendEvent"
  /\ LET d == Head(poll[k].todo) IN
     AddWatch(nLw, JoinPath(d, cfg.SubWatchDir), lwDone, lwWg, [poll EXCEPT ![k] = Sent(k)])
  /\ wlLw' = nLw
  /\ nLw' = nLw + 1
  /\ wlPc' = "fileloop"
  /\ UNCHANGED <<prog, cfg, cls, timeVars, accVars, inoVars, histVars, panicked, statVars, w2Vars,
                 fileG, checksLeft, mainVars>>

\* workLayout, lines 208-228: a file arrives from lw.Event(); a goroutine
\* is started for it
WorkLayoutRecvFile(k) ==
  /\ Alive /\ prog = "watcher"
  /\ wlPc = "fileloop"
  /\ k \in DOMAIN poll /\ k[1] = wlLw
  /\ poll[k].pc = "sendEvent"
  /\ fileG' = Append(fileG, [file |-> Head(poll[k].todo), lw |-> wlLw, pc |-> "stat",
                             samples |-> <<>>])
  /\ checksLeft' = checksLeft - 1
  /\ poll' = [poll EXCEPT ![k] = Sent(k)]
  /\ UNCHANGED <<prog, cfg, cls, timeVars, accVars, inoVars, histVars, panicked, statVars, w2Vars,
                 lwDone, lwWg, nLw, wlPc, wlLw, mainVars>>

\* workLayout, lines 229-233: an error arrives from lw.Error()
WorkLayoutRecvErr(k) ==
  /\ Alive /\ prog = "watcher"
  /\ wlPc = "fileloop"
  /\ k \in DOMAIN poll /\ k[1] = wlLw
  /\ poll[k].pc = "sendErr"
  /\ poll' = [poll EXCEPT ![k] = Sent(k)]
  /\ UNCHANGED <<prog, cfg, cls, timeVars, accVars, inoVars, histVars, panicked, statVars, w2Vars,
                 lwDone, lwWg, nLw, wlVars, mainVars>>

RemoveAt(q, i) == SubSeq(q, 1, i - 1) \o SubSeq(q, i + 1, Len(q))

\* the goroutine without the comparison of line 225
fileStable_NoCompare(r1, r2) == ~r1.err /\ ~r2.err

\* the goroutine of lines 212-228 sends iff both os.Stat succeeded and the
\* sizes are equal
fileStable(r1, r2) == ~r1.err /\ ~r2.err /\ r1.size = r2.size

\* the goroutine of lines 212-228 up to its send: os.Stat, 10 s, os.Stat
FileCheck(i) ==
  /\ Alive /\ prog = "watcher"
  /\ i \in DOMAIN fileG
  /\ fileG[i].pc = "stat"
  /\ \E p \in StatPairs :
       /\ lastStat' = [who |-> "workLayout", r1 |-> p[1], r2 |-> p[2],
                       verdict |-> IF fileStable(p[1], p[2]) THEN "stable" ELSE "unstable"]
       /\ unstableLeft' = IF Changed(p) THEN unstableLeft - 1 ELSE unstableLeft
       /\ fileG' = IF fileStable(p[1], p[2])
                   THEN [fileG EXCEPT ![i].pc = "send", ![i].samples = <<p[1], p[2]>>]
                   ELSE RemoveAt(fileG, i)
  /\ UNCHANGED <<prog, cfg, cls, timeVars, accVars, inoVars, histVars, panicked, w2Vars,
                 lwVars, wlPc, wlLw, checksLeft, mainVars>>

\* notifications <- Notification{file, lw.Close} meets the receive of work
FileSend(i) ==
  /\ Alive /\ prog = "watcher"
  /\ i \in DOMAIN fileG
  /\ fileG[i].pc = "send"
  /\ WorkRecv([File |-> fileG[i].file, OnProcess |-> CloseOf(fileG[i].lw),
               samples |-> fileG[i].samples])
  /\ fileG' = RemoveAt(fileG, i)
  /\ UNCHANGED <<prog, cfg, cls, timeVars, inoVars, panicked, statVars, w2Vars,
                 lwVars, wlPc, wlLw, checksLeft, mainVars>>

\* work, line 187, for a Notification of workLayout: lw.Close(), lines 269-271
WorkOnProcessClose ==
  /\ Alive /\ prog = "watcher"
  /\ workPc = "onProcess"
  /\ curOn.close
  /\ IF ClosePanics(curOn.lw)
     THEN panicked' = TRUE /\ UNCHANGED <<lwDone, workPc>>
     ELSE panicked' = panicked /\ lwDone' = CloseChannels(curOn.lw) /\ workPc' = "wgWait"
  /\ UNCHANGED <<prog, cfg, cls, timeVars, awaiting, cur, curOn, calls, procResult, inoVars, histVars,
                 statVars, w2Vars, lwWg, poll, nLw, wlVars, mainVars>>

\* work, line 187: lw.Close() returns from lw.wg.Wait()
WorkCloseReturn ==
  /\ Alive /\ prog = "watcher"
  /\ workPc = "wgWait"
  /\ WaitReturns(curOn.lw)
  /\ workPc' = "recv"
  /\ UNCHANGED <<prog, cfg, cls, timeVars, awaiting, cur, curOn, calls, procResult, inoVars, histVars,
                 panicked, statVars, w2Vars, lwVars, wlVars, mainVars>>

\* main, lines 384-386 and 370: the interrupt arrives, main returns and the
\* deferred watcher.Close() runs
MainSignal ==
  /\ Alive /\ prog = "watcher"
  /\ mainPc = "run"
  /\ IF ClosePanics(0)
     THEN panicked' = TRUE /\ UNCHANGED <<lwDone, mainPc>>
     ELSE panicked' = panicked /\ lwDone' = CloseChannels(0) /\ mainPc' = "wgWait"
  /\ UNCHANGED <<prog, cfg, cls, timeVars, accVars, inoVars, histVars, statVars, w2Vars,
                 lwWg, poll, nLw, wlVars, addsLeft, lastOp>>

\* main: the deferred watcher.Close() returns and the process exits
MainCloseReturn ==
  /\ Alive /\ prog = "watcher"
  /\ mainPc = "wgWait"
  /\ WaitReturns(0)
  /\ mainPc' = "exited"
  /\ UNCHANGED <<prog, cfg, cls, timeVars, accVars, inoVars, histVars, panicked, statVars, w2Vars,
                 lwVars, wlVars, addsLeft, lastOp>>

----------------------------------------------------------------------------
(* A client of LayoutWatcher: NewLayoutWatcher, then AddWatch, Close and  *)
(* receives from Event() and Error() in any order                          *)

NoCall == [op |-> "", path |-> <<>>, watched |-> FALSE]

ApiAddWatch(path) ==
  /\ Alive /\ prog = "lwapi"
  /\ mainPc = "run"
  /\ addsLeft > 0
  /\ addsLeft' = addsLeft - 1
  /\ lastOp' = [op |-> "AddWatch", path |-> path, watched |-> path \in DOMAIN lwDone[0]]
  /\ AddWatch(0, path, lwDone, lwWg, poll)
  /\ UNCHANGED <<prog, cfg, cls, timeVars, accVars, inoVars, histVars, panicked, statVars, w2Vars,
                 nLw, wlVars, mainPc>>

ApiClose ==
  /\ Alive /\ prog = "lwapi"
  /\ mainPc = "run"
  /\ lastOp' = [op |-> "Close", path |-> <<>>, watched |-> FALSE]
  /\ IF ClosePanics(0)
     THEN panicked' = TRUE /\ UNCHANGED <<lwDone, mainPc>>
     ELSE panicked' = panicked /\ lwDone' = CloseChannels(0) /\ mainPc' = "wgWait"
  /\ UNCHANGED <<prog, cfg, cls, timeVars, accVars, inoVars, histVars, statVars, w2Vars,
                 lwWg, poll, nLw, wlVars, addsLeft>>

ApiCloseReturn ==
  /\ Alive /\ prog = "lwapi"
  /\ mainPc = "wgWait"
  /\ WaitReturns(0)
  /\ mainPc' = "run"
  /\ lastOp' = [op |-> "CloseReturned", path |-> <<>>, watched |-> FALSE]
  /\ UNCHANGED <<prog, cfg, cls, timeVars, accVars, inoVars, histVars, panicked, statVars, w2Vars,
                 lwVars, wlVars, addsLeft>>

\* the client receives from lw.Event() or lw.Error()
ApiRecv(k) ==
  /\ Alive /\ prog = "lwapi"
  /\ k \in DOMAIN poll
  /\ poll[k].pc \in {"sendEvent", "sendErr"}
  /\ poll' = [poll EXCEPT ![k] = Sent(k)]
  /\ UNCHANGED <<prog, cfg, cls, timeVars, accVars, inoVars, histVars, panicked, statVars, w2Vars,
                 lwDone, lwWg, nLw, wlVars, mainVars>>

\* time passes
Tick ==
  /\ Alive /\ Clocked
  /\ now < MaxTime
  /\ now' = now + 1
  /\ UNCHANGED <<prog, cfg, cls, fs, owed, accVars, inoVars, histVars, panicked, statVars, w2Vars,
                 lwVars, wlVars, mainVars>>

\* the watches of path whose goroutine still polls
Polling(path) == { k \in DOMAIN poll : k[2] = path /\ poll[k].pc # "exited" }

\* entry i of path is created or modified: the file system stamps it with the
\* clock, and every watch of path owes its client an event for it
Touch(path, i) ==
  /\ Alive /\ Clocked
  /\ fs' = [fs EXCEPT ![path][i] = now]
  /\ owed' = owed \cup { <<k, i>> : k \in Polling(path) }
  /\ UNCHANGED <<prog, cfg, cls, now, accVars, inoVars, histVars, panicked, statVars, w2Vars,
                 lwVars, wlVars, mainVars>>

----------------------------------------------------------------------------
(* Identity extraction: NewState of viirs-watcher.go, NewState of the      *)
(* earlier viirs-watcher.go (src/unnamed/part_000) and getId of            *)
(* viirs-watcher2.go, called on a file name                                *)

\* NewState of src/unnamed/part_000, lines 98-113: only a type that starts
\* with "SV" is recorded
NewState_part000(fp) ==
  LET name == Base(fp)
      parts == Split(name, Us)
  IN IF Len(parts) < 6
     THEN [err |-> UnexpectedName, s |-> [Id |-> Empty, M10File |-> Empty, Files |-> <<>>]]
     ELSE [err |-> NoError,
           s |-> [Id |-> Join(SubSeq(parts, 2, 5), Us),
                  M10File |-> IF parts[1] = m10 THEN fp ELSE Empty,
                  Files |-> IF HasPrefix(parts[1], <<"SV">>) THEN <<parts[1]>> ELSE <<>>]]

\* the file names given to the functions
ClassifyNames ==
  { <<"NPP", "_", "GM", "TCO", "_", "A1", "_", "B2", "_", "C3", "_", "D4.h5">>,
    <<"GM", "TCO", "_", "A1", "_", "B2", "_", "C3", "_", "D4", "_", "x.h5">>,
    <<"in", "/", "SV", "M10", "_", "npp", "_", "d1", "_", "t1", "_", "e1", "_", "b1", "_", "c1.h5">>,
    <<"a", "_", "b", "/", "SV", "DNB", "_", "npp", "_", "d1", "_", "t1", "_", "e1", "_", "b1.h5">>,
    <<"SV", "M10", "_", "npp", "_", "d1", "_", "t1", "_", "e1.h5">>,
    <<"SV", "M10", "_", "_", "_", "_", "_">>,
    <<"readme.txt">>,
    Empty }

NoClass == [called |-> FALSE, fp |-> Empty, state |-> [err |-> NoError, s |-> NoState],
            legacy |-> [err |-> NoError, s |-> NoState], id |-> [err |-> NoError, id |-> Empty]]

\* NewState(fp) and getId(fp)
Classify ==
  /\ prog = "classify"
  /\ \E fp \in ClassifyNames :
       cls' = [called |-> TRUE, fp |-> fp, state |-> NewState(fp),
               legacy |-> NewState_part000(fp), id |-> getId(fp)]
  /\ UNCHANGED <<prog, cfg, timeVars, accVars, inoVars, histVars, panicked, statVars, w2Vars,
                 lwVars, wlVars, mainVars>>

----------------------------------------------------------------------------

Progs == {"watcher", "watcher2", "lwapi", "classify"}

\* viirs-watcher2.go reads no configuration
NoConfig ==
  [WatcherType |-> Empty, Period |-> Empty, WatchDir |-> Empty, SubWatchDir |-> Empty,
   OutputDir |-> Empty, DetectBinary |-> Empty, FitBinary |-> Empty,
   H5DumpBinary |-> Empty, RequireFiles |-> <<>>]

Init ==
  /\ prog \in Progs
  /\ cfg \in IF prog = "watcher" THEN {Constrain(c) : c \in RawConfigs} ELSE {NoConfig}
  /\ workPc = "recv"
  /\ awaiting = <<>>
  /\ cur = NoState
  /\ curOn = NoOp
  /\ calls = <<>>
  /\ procResult = "none"
  /\ evSend = None
  /\ eventsLeft = MaxEvents
  /\ dispatches = <<>>
  /\ recvd = <<>>
  /\ lastNotif = None
  /\ panicked = FALSE
  /\ lastStat = NoStat
  /\ unstableLeft = MaxUnstable
  /\ w2pc = "idle"
  /\ w2dir = Empty
  /\ w2content = <<>>
  /\ w2finfos = <<>>
  /\ w2i = 1
  /\ w2found = 0
  /\ w2marked = {}
  /\ w2m10file = Empty
  /\ w2id = Empty
  /\ lwDone = IF prog = "lwapi" THEN (0 :> <<>>) ELSE <<>>
  /\ lwWg = IF prog = "lwapi" THEN (0 :> 0) ELSE <<>>
  /\ poll = <<>>
  /\ nLw = IF prog = "lwapi" THEN 1 ELSE 0
  /\ wlPc = "none"
  /\ wlLw = 0
  /\ fileG = <<>>
  /\ checksLeft = MaxFileChecks
  /\ mainPc = IF prog = "lwapi" THEN "run" ELSE "start"
  /\ addsLeft = MaxAdds
  /\ lastOp = NoCall
  /\ cls = NoClass
  /\ now = 0
  /\ fs = IF Clocked THEN [p \in ApiPaths |-> [i \in DOMAIN ApiFiles |-> NoEntry]] ELSE <<>>
  /\ owed = {}

Next ==
  \/ InotifyEvent
  \/ InotifySend
  \/ ProcessGate
  \/ ProcessDetect
  \/ ProcessFit
  \/ WorkOnProcessNoOp
  \/ W2WatchRoot
  \/ W2ReadDir
  \/ W2ScanEntry
  \/ W2Sleep
  \/ W2ProcessGate
  \/ W2ProcessDetect
  \/ W2ProcessFit
  \/ TimedStart
  \/ \E k \in DOMAIN poll : PollReadDir(k)
  \/ \E k \in DOMAIN poll : PollTimer(k)
  \/ \E k \in DOMAIN poll : PollDone(k)
  \/ \E k \in DOMAIN poll : MainRecvErr(k)
  \/ \E k \in DOMAIN poll : WorkLayoutRecvDir(k)
  \/ \E k \in DOMAIN poll : WorkLayoutRecvFile(k)
  \/ \E k \in DOMAIN poll : WorkLayoutRecvErr(k)
  \/ \E i \in DOMAIN fileG : FileCheck(i)
  \/ \E i \in DOMAIN fileG : FileSend(i)
  \/ WorkOnProcessClose
  \/ WorkCloseReturn
  \/ MainSignal
  \/ MainCloseReturn
  \/ \E path \in ApiPaths : ApiAddWatch(path)
  \/ ApiClose
  \/ ApiCloseReturn
  \/ \E k \in DOMAIN poll : ApiRecv(k)
  \/ Tick
  \/ \E path \in ApiPaths : \E i \in DOMAIN ApiFiles : Touch(path, i)
  \/ Classify

Spec == Init /\ [][Next]_vars

----------------------------------------------------------------------------
(* Scheduling of the timed mode: every goroutine that can take a step      *)
(* eventually takes one, a timer eventually fires, and a select with a     *)
(* closed done channel eventually takes that case.  The arrival of the     *)
(* interrupt is left to the environment.                                   *)

PollKeys ==
  {<<0, TimedRoot>>}
  \cup {<<1, JoinPath(JoinPath(TimedRoot, TimedRuns[i]), TimedSub)>> : i \in DOMAIN TimedRuns}

\* the enabling condition of FileSend(i)
FileSendEnabled(i) ==
  Alive /\ prog = "watcher" /\ i \in DOMAIN fileG /\ fileG[i].pc = "send" /\ CanReceive

Fairness ==
  /\ WF_vars(MainCloseReturn)
  /\ WF_vars(WorkCloseReturn)
  /\ WF_vars(WorkOnProcessClose)
  /\ WF_vars(ProcessGate) /\ WF_vars(ProcessDetect) /\ WF_vars(ProcessFit)
  /\ \A k \in PollKeys :
       /\ WF_vars(PollReadDir(k))
       /\ WF_vars(PollTimer(k))
       /\ SF_vars(PollDone(k))
       /\ WF_vars(MainRecvErr(k))
       /\ WF_vars(WorkLayoutRecvDir(k))
       /\ WF_vars(WorkLayoutRecvFile(k))
       /\ WF_vars(WorkLayoutRecvErr(k))
  /\ \A i \in 1..(MaxFileChecks + 1) : WF_vars(FileCheck(i))
  \* WF_vars(FileSend(i)), with ENABLED written out
  /\ \A i \in 1..(MaxFileChecks + 1) :
       []<>(~FileSendEnabled(i)) \/ []<><<FileSend(i)>>_vars

\* viirs-watcher.go started in timed mode
TimedInit == Init /\ prog = "watcher" /\ cfg.WatcherType = Timed

TimedNext ==
  \/ TimedStart
  \/ \E k \in DOMAIN poll : PollReadDir(k)
  \/ \E k \in DOMAIN poll : PollTimer(k)
  \/ \E k \in DOMAIN poll : PollDone(k)
  \/ \E k \in DOMAIN poll : MainRecvErr(k)
  \/ \E k \in DOMAIN poll : WorkLayoutRecvDir(k)
  \/ \E k \in DOMAIN poll : WorkLayoutRecvFile(k)
  \/ \E k \in DOMAIN poll : WorkLayoutRecvErr(k)
  \/ \E i \in DOMAIN fileG : FileCheck(i)
  \/ \E i \in DOMAIN fileG : FileSend(i)
  \/ ProcessGate
  \/ ProcessDetect
  \/ ProcessFit
  \/ WorkOnProcessClose
  \/ WorkCloseReturn
  \/ MainSignal
  \/ MainCloseReturn

FairSpec == TimedInit /\ [][TimedNext]_vars /\ Fairness

----------------------------------------------------------------------------
(* Scheduling of viirs-watcher2.go: main and the watchSub goroutine keep   *)
(* running, every timer fires and every external command returns           *)

W2Init == Init /\ prog = "watcher2"

W2Next ==
  \/ W2WatchRoot
  \/ W2ReadDir
  \/ W2ScanEntry
  \/ W2Sleep
  \/ W2ProcessGate
  \/ W2ProcessDetect
  \/ W2ProcessFit

W2Fairness ==
  /\ WF_vars(W2WatchRoot)
  /\ WF_vars(W2ReadDir)
  /\ WF_vars(W2ScanEntry)
  /\ WF_vars(W2Sleep)
  /\ WF_vars(W2ProcessGate)
  /\ WF_vars(W2ProcessDetect)
  /\ WF_vars(W2ProcessFit)

W2FairSpec == W2Init /\ [][W2Next]_vars /\ W2Fairness

----------------------------------------------------------------------------
(* What the properties below know about the inputs, stated without the     *)
(* program's own parsing: every well-formed file name with its type and id *)

IdText(id) == id[1] \o <<"_">> \o id[2] \o <<"_">> \o id[3] \o <<"_">> \o id[4]

Known ==
  { [name |-> t \o <<"_">> \o IdText(id) \o <<"_">> \o tail, type |-> t, id |-> IdText(id)] :
      t \in SeqToSet(required) \cup {m10, GMTCO, SVDNB},
      id \in {IdA, IdB},
      tail \in {<<"b1.h5">>, <<"b2.h5">>} }

\* fp is the file d, in some directory
IsFile(fp, d) ==
  LET n == Len(d.name) IN
  /\ Len(fp) >= n
  /\ SubSeq(fp, Len(fp) - n + 1, Len(fp)) = d.name
  /\ (Len(fp) > n => fp[Len(fp) - n] = "/")

IsKnown(fp) == \E d \in Known : IsFile(fp, d)
Desc(fp) == CHOOSE d \in Known : IsFile(fp, d)

GranuleIds == {IdText(IdA), IdText(IdB)}
Required == SeqToSet(cfg.RequireFiles)

\* the files of granule id that work has received, with their descriptions
Received(id) ==
  LET known == {f \in DOMAIN recvd : IsKnown(f)}
      desc == [f \in known |-> Desc(f)]
  IN [f \in {g \in known : desc[g].id = id} |-> desc[f]]

\* Process has returned for the record cur
Returned == procResult \notin {"none", "running"}

ToolAt(i) == IF i <= Len(calls) THEN calls[i].tool ELSE "-"

----------------------------------------------------------------------------
(* C1 *)

\* C1: Config.Process is called at most once for every granule id, whatever
\* notifications follow its dispatch.
C1_ProcessOncePerId ==
  \A id \in DOMAIN dispatches : dispatches[id] <= 1

----------------------------------------------------------------------------
(* C2 *)

\* work received at most one file per type for granule id, all of required types
OnePerType(id) ==
  LET got == Received(id) IN
  \A f \in DOMAIN got :
    /\ recvd[f] = 1
    /\ got[f].type \in Required
    /\ \A g \in DOMAIN got : got[g].type = got[f].type => g = f

\* C2: when one file per required type of a granule is delivered, in any order
\* and interleaved with files of other granules, the granule is dispatched
\* exactly when the last missing required type has arrived, once, and the
\* dispatched record has the granule's id and exactly the required types.
C2_OrderIndependent ==
  prog = "watcher" =>
    \A id \in GranuleIds :
      OnePerType(id) =>
        LET got == Received(id) IN
        /\ Count(dispatches, id) =
             (IF {got[f].type : f \in DOMAIN got} = Required THEN 1 ELSE 0)
        /\ (Count(dispatches, id) = 1 /\ cur.Id = id) =>
             /\ SeqToSet(cur.Files) = Required
             /\ Len(cur.Files) = Cardinality(Required)
             /\ id \notin DOMAIN awaiting

\* a granule with three required types is dispatched at the arrival of GMTCO,
\* which the configuration lists first
C2_Witness ==
  /\ prog = "watcher"
  /\ Len(cfg.RequireFiles) = 3
  /\ OnePerType(IdText(IdA))
  /\ Count(dispatches, IdText(IdA)) = 1
  /\ workPc = "hasNight"
  /\ IsKnown(lastNotif.File)
  /\ Desc(lastNotif.File).type = GMTCO

----------------------------------------------------------------------------
(* C3 *)

ProductName(tag, id) == <<tag, "_">> \o id \o <<"_", "v2.1", ".csv">>

\* the granule being processed and the SVM10 file it was triggered by
GranuleId == IF prog = "watcher" THEN cur.Id ELSE w2id
Seen(fp) ==
  IF prog = "watcher" THEN Count(recvd, fp) >= 1
  ELSE \E i \in DOMAIN w2content : fp = w2dir \o <<"/">> \o w2content[i]

PipelineShape(fitTag) ==
  (prog \in {"watcher", "watcher2"} /\ procResult # "none") =>
    /\ Len(calls) <= 3
    /\ \A i \in DOMAIN calls : (calls[i].tool = "h5dump") <=> (i = 1)
    /\ Len(calls) >= 2 =>
         /\ calls[2].tool = "detect"
         /\ calls[2].args[1] # Empty
         /\ calls[2].args[1] = calls[1].args[3]
         /\ Seen(calls[2].args[1])
         /\ IsKnown(calls[2].args[1])
         /\ Desc(calls[2].args[1]).type = m10
         /\ Desc(calls[2].args[1]).id = GranuleId
         /\ calls[2].args[2] = <<"-output">>
         /\ Base(calls[2].args[3]) = ProductName("VNFD", GranuleId)
    /\ Len(calls) = 3 =>
         /\ calls[3].tool = "fit"
         /\ ~calls[2].err
         /\ calls[3].args[1] = calls[2].args[3]
         /\ calls[3].args[2] = <<"-output">>
         /\ Base(calls[3].args[3]) = ProductName(fitTag, GranuleId)

\* C3 (as amended): for every dispatched granule the invocations are the gate
\* check, once, then stage 1 on the SVM10 file of that granule, then stage 2 on
\* stage 1's output VNFD_<id>_<version>.csv; stage 2 writes
\* VNFL_<id>_<version>.csv in viirs-watcher.go and VNFF_<id>_<version>.csv in
\* viirs-watcher2.go.
C3_Pipeline ==
  PipelineShape(IF prog = "watcher2" THEN "VNFF" ELSE "VNFL")

\* C3 as stated: stage 2 writes VNFL_<id>_<version>.csv in both programs
C3_Original ==
  PipelineShape("VNFL")

\* Config.Process ran the three invocations for a granule of three types
C3_Witness ==
  /\ prog = "watcher"
  /\ Len(cfg.RequireFiles) = 3
  /\ Len(calls) = 3
  /\ procResult = NoError

----------------------------------------------------------------------------
(* C4 *)

GateRan == Len(calls) >= 1 /\ ~calls[1].err
BothStages ==
  /\ ToolAt(2) = "detect"
  /\ (~calls[2].err => ToolAt(3) = "fit")

\* the output of h5dump has an Ascending/Descending_Indicator other than 0
\* (or cannot be parsed)
NightValue(out) ==
  \/ ~out.wellFormed
  \/ \E i \in DOMAIN out.attrs :
       /\ out.attrs[i].Name = <<"Ascending/", "Descending_Indicator">>
       /\ \E j \in DOMAIN out.attrs[i].Data : out.attrs[i].Data[j] = "1"

HasMarker(out) ==
  \E i \in DOMAIN out.attrs :
    out.attrs[i].Name \in { <<"Ascending/", "Descending_Indicator">>, <<"Descending_Indicator">> }

\* C4 (as amended): when h5dump runs successfully, viirs-watcher.go invokes
\* stage 1 (and stage 2 after a successful stage 1) iff the output contains
\* "Descending_Indicator", and otherwise invokes no stage and returns the error
\* NoNightData; viirs-watcher2.go invokes stage 1 iff the output has an
\* Ascending/Descending_Indicator value other than 0 (or is not well-formed) and
\* the id can be read from the file name, and otherwise invokes no stage and
\* logs.
C4_Gate ==
  /\ (prog = "watcher" /\ Returned /\ GateRan) =>
       IF HasMarker(calls[1].out)
       THEN BothStages /\ procResult \in {NoError, DetectFailed, FitFailed}
       ELSE Len(calls) = 1 /\ procResult = NoNightData
  /\ (prog = "watcher2" /\ w2pc = "done" /\ GateRan) =>
       IF NightValue(calls[1].out)
       THEN IF IsKnown(w2m10file)
            THEN BothStages
            ELSE Len(calls) = 1 /\ procResult = "log: ERROR: Processing failed"
       ELSE Len(calls) = 1 /\ procResult = "log: No night data"

\* C4 as stated: output without the marker -> both stages; output with the
\* marker -> no stage and no error
C4_Original ==
  (prog = "watcher" /\ Returned /\ GateRan) =>
     IF HasMarker(calls[1].out)
     THEN Len(calls) = 1 /\ procResult = NoError
     ELSE BothStages

\* Config.Process returned NoNightData after a successful h5dump
C4_Witness ==
  /\ prog = "watcher"
  /\ Returned
  /\ GateRan
  /\ ~HasMarker(calls[1].out)
  /\ procResult = NoNightData

----------------------------------------------------------------------------
(* C5 *)

\* C5: stage 2 is invoked only after a stage 1 that succeeded; after a failed
\* stage 1, Process invokes no stage 2 and reports the failure of stage 1.
C5_Stage2AfterStage1 ==
  prog \in {"watcher", "watcher2"} =>
    /\ \A i \in DOMAIN calls :
         calls[i].tool = "fit" =>
           \E j \in 1..(i - 1) : calls[j].tool = "detect" /\ ~calls[j].err
    /\ \A j \in DOMAIN calls :
         (calls[j].tool = "detect" /\ calls[j].err) =>
           /\ j = Len(calls)
           /\ workPc \notin {"fit"} /\ w2pc # "fit"
           /\ procResult = (IF prog = "watcher" THEN DetectFailed
                            ELSE "log: ERROR: Detect failed")

\* stage 1 failed and Process returned DetectFailed
C5_Witness ==
  /\ prog = "watcher"
  /\ Len(calls) = 2
  /\ calls[2].tool = "detect" /\ calls[2].err
  /\ procResult = DetectFailed
  /\ workPc = "onProcess"

----------------------------------------------------------------------------
(* C6 *)

StableSamples(n) ==
  /\ Len(n.samples) = 2
  /\ ~n.samples[1].err /\ ~n.samples[2].err
  /\ n.samples[1].size = n.samples[2].size

\* C6 (as amended): in timed mode every path work receives has passed the
\* stability check; in inotify mode the path of an IN_CLOSE_WRITE event is
\* sent to work without a stability check.
C6_TimedStable ==
  (prog = "watcher" /\ lastNotif # None) =>
     IF cfg.WatcherType = Timed THEN StableSamples(lastNotif)
     ELSE lastNotif.samples = <<>>

\* C6 as stated: in both modes
C6_Original ==
  (prog = "watcher" /\ lastNotif # None) => StableSamples(lastNotif)

\* work received a file in timed mode
C6_Witness ==
  /\ prog = "watcher"
  /\ cfg.WatcherType = Timed
  /\ lastNotif # None
  /\ lastStat.who = "workLayout"

----------------------------------------------------------------------------
(* C7 *)

\* C7: a stability check says stable iff both os.Stat calls succeeded with
\* equal sizes and says not stable otherwise, without crashing.
C7_StabilityVerdict ==
  lastStat.who # "" =>
    lastStat.verdict =
      (IF ~lastStat.r1.err /\ ~lastStat.r2.err /\ lastStat.r1.size = lastStat.r2.size
       THEN "stable" ELSE "unstable")

----------------------------------------------------------------------------
(* C8 *)

InProcess == workPc \in {"hasNight", "detect", "fit", "onProcess", "wgWait"}

\* a goroutine is blocked sending a Notification for another granule
SenderWaiting ==
  \/ evSend # None /\ IsKnown(evSend.File) /\ Desc(evSend.File).id # cur.Id
  \/ \E i \in DOMAIN fileG :
       fileG[i].pc = "send" /\ IsKnown(fileG[i].file) /\ Desc(fileG[i].file).id # cur.Id

\* C8 (as amended): dispatch blocks event ingestion: from the call of
\* Config.Process until Process and OnProcess have returned, work receives no
\* notification and the awaiting table does not change.
C8_DispatchBlocks ==
  [][(prog = "watcher" /\ InProcess) => (recvd' = recvd /\ awaiting' = awaiting)]_vars

\* C8 as stated: while Process runs, work can receive the notification a
\* sender holds for another granule
C8_Original ==
  (prog = "watcher" /\ InProcess /\ SenderWaiting) => CanReceive

\* Process runs while the inotify loop holds a notification for another granule
C8_Witness ==
  /\ prog = "watcher"
  /\ workPc = "detect"
  /\ SenderWaiting

----------------------------------------------------------------------------
(* C9 *)

\* C9: a Close() that waits for the polling goroutines eventually returns:
\* the Close() of main at shutdown, and the Close() work calls through
\* OnProcess unless the process exits first.
C9_CloseReturns ==
  /\ []((prog = "watcher" /\ mainPc = "wgWait") => <>(mainPc = "exited"))
  /\ []((prog = "watcher" /\ workPc = "wgWait") => <>(workPc = "recv" \/ mainPc = "exited"))

----------------------------------------------------------------------------
(* C10 *)

\* C10: AddWatch(p) for a watched path p changes nothing in the watcher.
C10_DoubleWatchNoOp ==
  [][(prog = "lwapi" /\ addsLeft' # addsLeft /\ lastOp'.watched)
       => (lwDone' = lwDone /\ lwWg' = lwWg /\ poll' = poll)]_vars

----------------------------------------------------------------------------
(* C11 *)

\* the root watch has the run directory d to emit on its event channel
RootOffers(d) ==
  /\ prog = "watcher"
  /\ \E k \in DOMAIN poll :
       k[1] = 0 /\ poll[k].pc = "sendEvent" /\ Head(poll[k].todo) = d

\* a nested poll watch on path p was started
NestedWatch(p) == \E k \in DOMAIN poll : k[1] # 0 /\ k[2] = p

\* C11: in timed mode, every run directory the root watch has found and is
\* about to emit eventually gets a nested poll watch on <run>/<SubWatchDir>,
\* unless the program is interrupted or has crashed first.
C11_EveryRunWatched ==
  \A i \in DOMAIN TimedRuns :
    [](RootOffers(JoinPath(TimedRoot, TimedRuns[i]))
         => <>(\/ NestedWatch(JoinPath(JoinPath(TimedRoot, TimedRuns[i]), TimedSub))
               \/ mainPc # "run"
               \/ panicked))

----------------------------------------------------------------------------
(* C12 *)

\* every required type has a file in the nested directory that fileDone
\* reported stable
AllTypesStable ==
  /\ prog = "watcher2"
  /\ \A i \in DOMAIN required : \E n \in w2marked : HasPrefix(n, required[i])

\* watchSub has left its loop and called Process
W2Processing == w2pc \in {"detect", "fit", "done"}

\* C12: once every required type has a stable file in the nested directory,
\* watchSub eventually leaves its polling loop and invokes Process.
C12_NestedWatchTerminates == [](AllTypesStable => <>W2Processing)

----------------------------------------------------------------------------
(* C13 *)

ExampleName == <<"NPP", "_", "GM", "TCO", "_", "A1", "_", "B2", "_", "C3", "_", "D4.h5">>

\* what the functions are to return for every name given to them:
\* [ok, type, id], with the type that part_000 records
Extracted ==
  [fp \in ClassifyNames |->
     CASE fp = ExampleName ->
            [ok |-> TRUE, type |-> <<<<"NPP">>>>, old |-> <<>>,
             id |-> <<"GM", "TCO", "_", "A1", "_", "B2", "_", "C3">>]
       [] fp = <<"GM", "TCO", "_", "A1", "_", "B2", "_", "C3", "_", "D4", "_", "x.h5">> ->
            [ok |-> TRUE, type |-> <<<<"GM", "TCO">>>>, old |-> <<>>,
             id |-> <<"A1", "_", "B2", "_", "C3", "_", "D4">>]
       [] fp = <<"in", "/", "SV", "M10", "_", "npp", "_", "d1", "_", "t1", "_", "e1", "_",
                 "b1", "_", "c1.h5">> ->
            [ok |-> TRUE, type |-> <<<<"SV", "M10">>>>, old |-> <<<<"SV", "M10">>>>,
             id |-> <<"npp", "_", "d1", "_", "t1", "_", "e1">>]
       [] fp = <<"a", "_", "b", "/", "SV", "DNB", "_", "npp", "_", "d1", "_", "t1", "_", "e1", "_",
                 "b1.h5">> ->
            [ok |-> TRUE, type |-> <<<<"SV", "DNB">>>>, old |-> <<<<"SV", "DNB">>>>,
             id |-> <<"npp", "_", "d1", "_", "t1", "_", "e1">>]
       [] fp = <<"SV", "M10", "_", "_", "_", "_", "_">> ->
            [ok |-> TRUE, type |-> <<<<"SV", "M10">>>>, old |-> <<<<"SV", "M10">>>>,
             id |-> <<"_", "_", "_">>]
       [] OTHER -> [ok |-> FALSE, type |-> <<>>, old |-> <<>>, id |-> <<>>] ]

\* C13 (as amended): NewState and getId split the base name at "_"; a name of
\* fewer than six tokens is refused with UnexpectedName; otherwise the type is
\* token 0 and the id is tokens 1 to 4 joined by "_" (the earlier NewState
\* records the type only when it starts with "SV").  For
\* "NPP_GMTCO_A1_B2_C3_D4.h5" the type is NPP and the id is GMTCO_A1_B2_C3;
\* "GMTCO_A1_B2_C3_D4_x.h5" has type GMTCO and id A1_B2_C3_D4.
C13_Classify ==
  cls.called =>
    LET want == Extracted[cls.fp] IN
    IF want.ok
    THEN /\ cls.state.err = NoError
         /\ cls.state.s.Files = want.type
         /\ cls.state.s.Id = want.id
         /\ (cls.state.s.M10File # Empty) <=> (want.type = <<m10>>)
         /\ cls.legacy.err = NoError
         /\ cls.legacy.s.Files = want.old
         /\ cls.legacy.s.Id = want.id
         /\ cls.id = [err |-> NoError, id |-> want.id]
    ELSE /\ cls.state.err = UnexpectedName
         /\ cls.legacy.err = UnexpectedName
         /\ cls.id.err = UnexpectedName

\* C13 as stated: the example has type GMTCO and id A1_B2_C3_D4
C13_Original ==
  (cls.called /\ cls.fp = ExampleName) =>
    /\ cls.state.s.Files = <<<<"GM", "TCO">>>>
    /\ cls.state.s.Id = <<"A1", "_", "B2", "_", "C3", "_", "D4">>
    /\ cls.id.id = <<"A1", "_", "B2", "_", "C3", "_", "D4">>

\* NewState and getId accepted the example
C13_Witness ==
  /\ cls.called
  /\ cls.fp = ExampleName
  /\ cls.state.err = NoError
  /\ cls.id.err = NoError

----------------------------------------------------------------------------
(* C14 *)

\* the metadata tool was run for the current dispatch and failed
GateFailed == Len(calls) >= 1 /\ calls[1].tool = "h5dump" /\ calls[1].err

\* C14: when h5dump fails to run, Process does not drop the granule: the
\* next invocation is stage 1 on the SVM10 file of the granule, as after a
\* gate that passed (in viirs-watcher2.go, provided the id can be read from
\* the file name, which is tested after the gate either way).
C14_GateFailureProceeds ==
  /\ (prog = "watcher" /\ GateFailed) =>
       /\ procResult # NoNightData
       /\ IF Len(calls) = 1
          THEN workPc = "detect" /\ procResult = "running"
          ELSE /\ calls[2].tool = "detect"
               /\ calls[2].args = DetectArgs(cur.M10File, DetFile(cfg.OutputDir, cur.Id))
  /\ (prog = "watcher2" /\ GateFailed) =>
       /\ procResult # "log: No night data"
       /\ IF ~IsKnown(w2m10file)
          THEN Len(calls) = 1 /\ procResult = "log: ERROR: Processing failed"
          ELSE IF Len(calls) = 1
          THEN w2pc = "detect" /\ procResult = "running"
          ELSE /\ calls[2].tool = "detect"
               /\ calls[2].args = DetectArgs(w2m10file, DetFile2(w2id))

\* h5dump failed and stage 1 was invoked
C14_Witness ==
  /\ prog = "watcher"
  /\ GateFailed
  /\ Len(calls) >= 2
  /\ calls[2].tool = "detect"
  /\ cfg.H5DumpBinary # Empty

----------------------------------------------------------------------------
(* C15 *)

\* C15: once the record of a pending granule has its M10File, no step of
\* work changes it: the record keeps it while it stays in awaiting, and the
\* record handed to Process has it.
C15_FirstSeenWins ==
  [][prog = "watcher" =>
       \A id \in DOMAIN awaiting :
         awaiting[id].M10File # Empty =>
           IF id \in DOMAIN awaiting'
           THEN awaiting'[id].M10File = awaiting[id].M10File
           ELSE cur'.Id = id /\ cur'.M10File = awaiting[id].M10File]_vars

----------------------------------------------------------------------------
(* C16 *)

\* C16: whenever watchSub has left its loop and invoked Process, every
\* required type was observed as a stable file of the nested directory, and
\* the path passed to Process is the path of an SVM10 file of that directory.
C16_CountsTypes ==
  (prog = "watcher2" /\ W2Processing) =>
    /\ \A i \in DOMAIN required : \E n \in w2marked : HasPrefix(n, required[i])
    /\ w2m10file # Empty
    /\ \E i \in DOMAIN w2content :
         /\ HasPrefix(w2content[i], <<"SV", "M10">>)
         /\ w2m10file = w2dir \o <<"/">> \o w2content[i]

----------------------------------------------------------------------------
(* C17 *)

\* C17: the types of every record of the awaiting table and of the record
\* handed to Process are configured types.
C17_TypesConfigured ==
  prog = "watcher" =>
    /\ \A id \in DOMAIN awaiting : SeqToSet(awaiting[id].Files) \subseteq Required
    /\ SeqToSet(cur.Files) \subseteq Required

----------------------------------------------------------------------------
(* C18 *)

\* the record s has every configured type
Complete(s) == Required \subseteq SeqToSet(s.Files)

\* C18: no record of the awaiting table is complete when work waits for its
\* next notification, and while Process runs for a granule the record of
\* that granule, which is complete, is no longer in the table.
C18_PendingIncomplete ==
  prog = "watcher" =>
    /\ workPc = "recv" => \A id \in DOMAIN awaiting : ~Complete(awaiting[id])
    /\ workPc # "recv" => Complete(cur) /\ cur.Id \notin DOMAIN awaiting

\* Process runs for a granule of two required types, which was pending
\* before its last type arrived, while another granule is pending
C18_Witness ==
  /\ prog = "watcher"
  /\ workPc = "hasNight"
  /\ Len(cur.Files) >= 2
  /\ DOMAIN awaiting # {}
  /\ cur.Id \notin DOMAIN awaiting

----------------------------------------------------------------------------
----------------------------------------------------------------------------
(* C19 *)

\* C19: a polling watch misses no arrival. Between two passes of a watch (its
\* goroutine is about to list the directory, or waits for the period or for
\* done), every entry that was created or modified after the watch was added
\* and has not been emitted since carries a ModTime after the high-water mark
\* lastCheck, so that the next pass emits it.
BetweenPasses(k) == poll[k].pc \in {"readdir", "select"}
C19_NoMissedArrival ==
  \A k \in DOMAIN poll : \A i \in DOMAIN ApiFiles :
    (Clocked /\ BetweenPasses(k) /\ <<k, i>> \in owed) => fs[k[2]][i] > poll[k].lastCheck

----------------------------------------------------------------------------
(* C20 *)

\* C20: in timed mode no call of LayoutWatcher.Close finds a done channel
\* already closed: no goroutine panics in close().
C20_NoDoubleClose == prog = "watcher" => ~panicked

====
